---- MODULE Spec2Model ----
(***************************************************************************)
(* Vehicle telematics emulator: store-and-forward delivery of log records  *)
(* (services/log_handlers, services/log_storage_manager.py) and the        *)
(* emulator state machine (services/emulator_manager.py,                   *)
(* services/data_generator.py, services/log_generators).                   *)
(***************************************************************************)
EXTENDS Integers, Sequences, FiniteSets, TLC

\* ------------------------------------------------------------------------
\* Bounds of the model
\* ------------------------------------------------------------------------
\* number of log records the callers hand to store_log in one behaviour
MaxRecords == 2
\* number of clock advances in one behaviour
MaxTicks == 1
\* number of log records the emulator produces in one behaviour
MaxEmuRecords == 4
\* data-collection batch size handed to start_realtime_data_collection
BatchSize == 3

\* ------------------------------------------------------------------------
\* Program constants
\* ------------------------------------------------------------------------
\* GpsLogHandler / GeofenceLogHandler retention, PowerLogHandler retention
GpsMaxStorageHours == 1
PowerMaxStorageHours == 24
GeofenceMaxStorageHours == 1
\* a step longer than this many metres is not added to the odometer
MaxStepMeters == 80

\* the two LogStorageManager objects of the process: the one owned by the
\* EmulatorDataGenerator singleton and the one created by app.py
Managers == {"dg", "app"}
\* the manager whose background sender the application starts (app.py)
SenderManagers == {"app"}
Kinds == {"gps", "power", "geofence"}
\* the kinds the emulator stores (store_geofence_log has no caller)
StoredKinds == {"gps", "power"}
MDNs == {"m1", "m2"}
Handlers == Managers \X Kinds

\* threads that call store: the HTTP event-loop thread and the sampler
Callers == {"api", "sampler"}
NoThread == "nobody"

\* clock advances (hours) the environment can make
ClockSteps == {1, 24}

\* what the backend can answer to one POST, or the exception requests raises
HttpStatuses == {200, 201, 500}
HttpBodies == {"code000", "rstCd000", "code999", "notjson"}
Responses ==
    [type : {"http"}, status : HttpStatuses, body : HttpBodies]
    \cup [type : {"ConnectionError", "Timeout", "RequestException", "Exception"},
          status : {0}, body : {"none"}]

\* Coordinates are metres along a line, so that calculate_distance is the
\* absolute difference.  Seed positions stand for the random start position,
\* Routes for what the route service returns.
DefaultPosition == 1000
SeedPositions == {2000}
Routes == {<<10>>, <<10, 60>>, <<10, 60, 160>>}
NoPosition == -1
NoDistance == -1

VARIABLES
    pending,      \* pending[h][mdn] : the queue of PendingEntry of handler h
    lock,         \* lock[h] : thread holding handler h's queue_lock
    now,          \* wall clock, in hours
    ticks,        \* number of clock advances so far
    nextRec,      \* id of the next record handed to store
    st,           \* st[t] : position of caller t inside the store call chain
    ctx,          \* ctx[t] : arguments of the store call of caller t
    sendOk,       \* sendOk[t] : result of the immediate send of caller t
    response,     \* response[t] : what the backend answered to that send
    storeRet,     \* storeRet[t] : value store_log returned to caller t
    running,      \* running[m] : LogStorageManager.running
    swpc,         \* swpc[m] : position of manager m's background sender
    delivered,    \* records the backend acknowledged
    discarded,    \* records dropped by a sweep for their age
    attempts      \* attempts[r] : sends a sweep made for record r

VARIABLES
    self_mdn,                  \* EmulatorManager.mdn
    is_active,                 \* EmulatorManager.is_active
    last_latitude,             \* EmulatorManager.last_latitude/last_longitude
    accumulated_distance,      \* EmulatorManager.accumulated_distance
    mdn_accumulated_distances, \* EmulatorManager.mdn_accumulated_distances
    last_positions,            \* EmulatorManager.last_positions
    active_emulators,          \* EmulatorManager.active_emulators (one key)
    last_power_on_time,        \* EmulatorManager.last_power_on_time
    kakao_route_points,        \* EmulatorManager.kakao_route_points
    current_route_index,       \* EmulatorManager.current_route_index
    collecting_data,           \* EmulatorManager.collecting_data
    data_timer,                \* EmulatorManager.data_timer
    data_timers,               \* keys of EmulatorManager.data_timers
    stop_event,                \* the stop_event of the sampler thread is set
    data_callback,             \* EmulatorManager.data_callback is set
    op,                        \* op[t] : operation thread t is executing
    loc,                       \* loc[t] : locals of that operation
    count,                     \* _data_collection_worker's local count
    recInfo,                   \* recInfo[r] : content of log record r
    apiRet                     \* result of the last API call

VARIABLES
    data_points,   \* argument of the last batch_gps_data_points call
    cList,         \* entry list of the GPS record an encoder produced last
    vertex_count,  \* vertices of the route the directions provider returned
    gps_log,       \* what generate_gps_log(generate_full=True) made of it
    route_points,  \* argument of the last _interpolate_points call
    result,        \* what that call returned
    heading        \* the last heading computed: prev_angle, the bearing and
                   \* the angle that came out

encVars == <<data_points, cList, vertex_count, gps_log, route_points, result,
             heading>>

\* no heading computed yet
NoHeading == [moved |-> FALSE, prev_angle |-> 0, current_angle |-> 0,
              angle |-> 0]

VARIABLES
    emulator,   \* the EmulatorManager attribute by attribute, with the
                \* longitude apart from the latitude
    worker,     \* position of its sampler thread inside one iteration, its
                \* buffer, its prev_lat and the distance its iterations moved
    query,      \* position of a get_vehicle_gps_data call and what it read
    completed   \* the vehicle states at the end of every call and iteration

queryVars == <<emulator, worker, query, completed>>

VARIABLES
    sender_call   \* sender_call[m] : the last start_background_sender or
                  \* stop_background_sender call on manager m and its result

emuVars == <<self_mdn, is_active, last_latitude, accumulated_distance,
             mdn_accumulated_distances, last_positions, active_emulators,
             last_power_on_time,
             kakao_route_points, current_route_index, collecting_data,
             data_timer, data_timers, stop_event, data_callback, op, loc,
             count, recInfo, apiRet, encVars, queryVars>>

\* everything but the delivery subsystem's own variables
restVars == <<emuVars, sender_call>>

vars == <<pending, lock, now, ticks, nextRec, st, ctx, sendOk, response, storeRet,
          running, swpc, delivered, discarded, attempts, restVars>>

Records == 1..((IF MaxRecords > MaxEmuRecords THEN MaxRecords
                ELSE MaxEmuRecords) + 1)
NoResponse == [type |-> "none", status |-> 0, body |-> "none"]
NoCtx == [mgr |-> "dg", kind |-> "gps", mdn |-> "m1", rec |-> 0]
NoLoc == [total |-> 0, batch |-> <<>>, mdn |-> "m1"]
NoInfo == [kind |-> "none", mdn |-> "m1", items |-> <<>>, gcd |-> "none",
           lat |-> 0, onTime |-> 0, sum |-> 0]

\* ------------------------------------------------------------------------
\* BaseLogHandler
\* ------------------------------------------------------------------------
MaxStorageHours(kind) ==
    CASE kind = "gps" -> GpsMaxStorageHours
      [] kind = "power" -> PowerMaxStorageHours
      [] kind = "geofence" -> GeofenceMaxStorageHours

\* a send that takes every HTTP 200/201 for an acknowledgement
SendLogToBackend_AnyHttpOk(resp) ==
    /\ resp.type = "http"
    /\ resp.status \in {200, 201}

\* send_log_to_backend: success is an HTTP 200/201 whose JSON body carries
\* code "000" or rstCd "000"; every exception is caught and reported as failure
SendLogToBackend(resp) ==
    /\ resp.type = "http"
    /\ resp.status \in {200, 201}
    /\ resp.body \in {"code000", "rstCd000"}

PendingEntry(rec, kind) ==
    [data |-> rec, timestamp |-> now, retry_count |-> 0, log_type |-> kind]

HandlerOf(t) == <<ctx[t].mgr, ctx[t].kind>>

\* a caller enters LogStorageManager.store_<kind>_log -> handler.store_<kind>_log
\* -> store_log with a fresh record
StoreCall(t, kind, mdn) ==
    /\ st[t] = "idle"
    /\ nextRec <= MaxRecords
    /\ ctx' = [ctx EXCEPT ![t] = [mgr |-> "dg", kind |-> kind, mdn |-> mdn,
                                  rec |-> nextRec]]
    /\ nextRec' = nextRec + 1
    /\ st' = [st EXCEPT ![t] = "send"]
    /\ storeRet' = [storeRet EXCEPT ![t] = "none"]
    /\ sendOk' = [sendOk EXCEPT ![t] = FALSE]
    /\ UNCHANGED <<pending, lock, now, ticks, running, swpc, delivered,
                   discarded, attempts, response>>
    /\ UNCHANGED restVars

\* store_log, lines 93-101: the immediate send, the backend answering resp;
\* on success return True.  With observed the answer is kept in response
\* until the caller's next step.
ImmediateSend(t, resp, observed) ==
    LET ok == SendLogToBackend(resp) IN
    /\ st[t] = "send"
    /\ sendOk' = [sendOk EXCEPT ![t] = ok]
    /\ response' = [response EXCEPT ![t] =
                       IF observed THEN resp ELSE NoResponse]
    /\ IF ok
       THEN /\ st' = [st EXCEPT ![t] = "wrapper"]
            /\ storeRet' = [storeRet EXCEPT ![t] = "True"]
            /\ delivered' = delivered \cup {ctx[t].rec}
       ELSE /\ st' = [st EXCEPT ![t] = "enqueue"]
            /\ UNCHANGED <<storeRet, delivered>>
    /\ UNCHANGED <<pending, lock, now, ticks, nextRec, ctx, running, swpc,
                   discarded, attempts>>
    /\ UNCHANGED restVars

\* a store_log that queues the record although the backend acknowledged it
StoreLogSend_QueuesOnSuccess(t) ==
    /\ st[t] = "send"
    /\ \E resp \in Responses :
         LET ok == SendLogToBackend(resp) IN
         /\ sendOk' = [sendOk EXCEPT ![t] = ok]
         /\ IF ok
            THEN /\ st' = [st EXCEPT ![t] = "wrapper"]
                 /\ storeRet' = [storeRet EXCEPT ![t] = "True"]
                 /\ delivered' = delivered \cup {ctx[t].rec}
                 /\ pending' = [pending EXCEPT ![HandlerOf(t)][ctx[t].mdn] =
                        Append(@, [data |-> ctx[t].rec, timestamp |-> now,
                                   retry_count |-> 0,
                                   log_type |-> ctx[t].kind])]
            ELSE /\ st' = [st EXCEPT ![t] = "enqueue"]
                 /\ UNCHANGED <<storeRet, delivered, pending>>
    /\ UNCHANGED <<lock, now, ticks, nextRec, ctx, running, swpc,
                   discarded, attempts, response>>
    /\ UNCHANGED restVars

StoreLogSend(t) == \E resp \in Responses : ImmediateSend(t, resp, FALSE)

\* the same step with the backend's answer observed
StoreLogSendObserved(t) == \E resp \in Responses : ImmediateSend(t, resp, TRUE)

\* store_log, lines 103-114: take queue_lock, create the queue, put the entry
StoreLogEnqueue(t) ==
    /\ st[t] = "enqueue"
    /\ lock[HandlerOf(t)] = NoThread
    /\ lock' = [lock EXCEPT ![HandlerOf(t)] = t]
    /\ pending' = [pending EXCEPT ![HandlerOf(t)][ctx[t].mdn] =
                      Append(@, PendingEntry(ctx[t].rec, ctx[t].kind))]
    /\ st' = [st EXCEPT ![t] = "count_in_lock"]
    /\ response' = [response EXCEPT ![t] = NoResponse]
    /\ UNCHANGED <<now, ticks, nextRec, ctx, sendOk, storeRet, running, swpc,
                   delivered, discarded, attempts>>
    /\ UNCHANGED restVars

\* count_pending_logs, lines 65-78: needs queue_lock.  It is called from
\* store_log line 116 (inside the with-block that holds queue_lock; after it
\* the with-block ends and store_log returns True) and from the wrapper
\* store_<kind>_log after store_log returned
CountPendingLogs(t) ==
    /\ st[t] \in {"count_in_lock", "wrapper"}
    /\ lock[HandlerOf(t)] = NoThread
    /\ IF st[t] = "count_in_lock"
       THEN /\ st' = [st EXCEPT ![t] = "wrapper"]
            /\ storeRet' = [storeRet EXCEPT ![t] = "True"]
       ELSE /\ st' = [st EXCEPT ![t] = "returned"]
            /\ UNCHANGED storeRet
    /\ response' = [response EXCEPT ![t] = NoResponse]
    /\ UNCHANGED <<pending, lock, now, ticks, nextRec, ctx, sendOk, running,
                   swpc, delivered, discarded, attempts>>
    /\ UNCHANGED restVars

\* the caller takes the wrapper's result and is ready for its next call
StoreReturn(t) ==
    /\ st[t] = "returned"
    /\ st' = [st EXCEPT ![t] = "idle"]
    /\ ctx' = [ctx EXCEPT ![t] = NoCtx]
    /\ sendOk' = [sendOk EXCEPT ![t] = FALSE]
    /\ storeRet' = [storeRet EXCEPT ![t] = "none"]
    /\ UNCHANGED <<pending, lock, now, ticks, nextRec, running, swpc,
                   delivered, discarded, attempts, response>>
    /\ UNCHANGED restVars

\* ------------------------------------------------------------------------
\* process_pending_logs: one sweep of one queue
\* ------------------------------------------------------------------------
\* the function walks the queue from its head with current_time fixed;
\* outs[i] is the result of the i-th send the sweep makes.  The result is
\* the surviving queue and what happened to every entry.
RECURSIVE SweepFrom(_, _, _, _, _, _)
SweepFrom(q, i, hours, current_time, outs, acc) ==
    IF i > Len(q) THEN acc
    ELSE LET e == q[i] IN
         IF current_time - e.timestamp >= hours
         THEN SweepFrom(q, i + 1, hours, current_time, outs,
                        [acc EXCEPT !.expired = @ \cup {e.data}])
         ELSE LET n == acc.processed + 1 IN
              IF outs[n]
              THEN SweepFrom(q, i + 1, hours, current_time, outs,
                             [acc EXCEPT !.processed = n,
                                         !.sent = Append(@, e.data),
                                         !.tried = Append(@, e.data)])
              ELSE SweepFrom(q, i + 1, hours, current_time, outs,
                             [acc EXCEPT !.processed = n,
                                         !.tried = Append(@, e.data),
                                         !.temp_queue = Append(@,
                                            [e EXCEPT !.retry_count = @ + 1])])

ProcessPendingLogs(q, hours, current_time, outs) ==
    SweepFrom(q, 1, hours, current_time, outs,
              [temp_queue |-> <<>>, processed |-> 0, sent |-> <<>>,
               tried |-> <<>>, expired |-> {}])

SeqToSet(s) == {s[i] : i \in 1..Len(s)}

\* ------------------------------------------------------------------------
\* LogStorageManager: the background sender
\* ------------------------------------------------------------------------
SenderAlive(m) == swpc[m] \notin {"off", "exited"}

\* start_background_sender with no sender thread alive: running is set and
\* a thread started, True is returned
StartBackgroundSender(m) ==
    /\ ~SenderAlive(m)
    /\ running' = [running EXCEPT ![m] = TRUE]
    /\ swpc' = [swpc EXCEPT ![m] = "sleep"]
    /\ sender_call' = [sender_call EXCEPT ![m] = "start:True"]
    /\ UNCHANGED <<pending, lock, now, ticks, nextRec, st, ctx, sendOk, response,
                   storeRet, delivered, discarded, attempts>>
    /\ UNCHANGED emuVars

\* start_background_sender lines 264-265: with the sender thread alive the
\* call returns False and changes nothing
StartBackgroundSenderAlive(m) ==
    /\ SenderAlive(m)
    /\ sender_call' = [sender_call EXCEPT ![m] = "start:False"]
    /\ UNCHANGED <<pending, lock, now, ticks, nextRec, st, ctx, sendOk, response,
                   storeRet, running, swpc, delivered, discarded, attempts>>
    /\ UNCHANGED emuVars

\* stop_background_sender: clear the flag; the join is bounded by 5 s
StopBackgroundSender(m) ==
    /\ SenderAlive(m)
    /\ running' = [running EXCEPT ![m] = FALSE]
    /\ sender_call' = [sender_call EXCEPT ![m] = "stop"]
    /\ UNCHANGED <<pending, lock, now, ticks, nextRec, st, ctx, sendOk, response,
                   storeRet, swpc, delivered, discarded, attempts>>
    /\ UNCHANGED emuVars

\* _background_sender_task: after a sleep the loop tests self.running
SenderWake(m) ==
    /\ swpc[m] = "sleep"
    /\ swpc' = [swpc EXCEPT ![m] = IF running[m] THEN "gps" ELSE "exited"]
    /\ UNCHANGED <<pending, lock, now, ticks, nextRec, st, ctx, sendOk, response,
                   storeRet, running, delivered, discarded, attempts>>
    /\ UNCHANGED restVars

NextKind(k) ==
    CASE k = "gps" -> "power"
      [] k = "power" -> "geofence"
      [] k = "geofence" -> "sleep"

QueueTotal(h) ==
    LET RECURSIVE Sum(_)
        Sum(S) == IF S = {} THEN 0
                  ELSE LET m == CHOOSE x \in S : TRUE
                       IN Len(pending[h][m]) + Sum(S \ {m})
    IN Sum(MDNs)

\* process_all_pending_logs of one handler: the keys are listed under
\* queue_lock and every listed queue is swept under queue_lock, the sends
\* included
ProcessAllPendingLogs(m) ==
    /\ swpc[m] \in Kinds
    /\ LET h == <<m, swpc[m]>> IN
       /\ lock[h] = NoThread
       /\ \E outs \in [MDNs -> [1..QueueTotal(h) -> BOOLEAN]] :
            LET res == [mdn \in MDNs |->
                          ProcessPendingLogs(pending[h][mdn],
                                             MaxStorageHours(swpc[m]), now,
                                             outs[mdn])]
            IN
            /\ pending' = [pending EXCEPT ![h] =
                              [mdn \in MDNs |-> res[mdn].temp_queue]]
            /\ delivered' = delivered \cup
                  UNION {SeqToSet(res[mdn].sent) : mdn \in MDNs}
            /\ discarded' = discarded \cup
                  UNION {res[mdn].expired : mdn \in MDNs}
            /\ attempts' = [r \in Records |->
                  attempts[r] +
                  Cardinality({mdn \in MDNs : r \in SeqToSet(res[mdn].tried)})]
    /\ swpc' = [swpc EXCEPT ![m] = NextKind(swpc[m])]
    /\ UNCHANGED <<lock, now, ticks, nextRec, st, ctx, sendOk, storeRet,
                   running, response>>
    /\ UNCHANGED restVars

\* the wall clock advances
Tick ==
    /\ ticks < MaxTicks
    /\ \E d \in ClockSteps : now' = now + d
    /\ ticks' = ticks + 1
    /\ UNCHANGED <<pending, lock, nextRec, st, ctx, sendOk, storeRet, running,
                   swpc, delivered, discarded, attempts, response>>
    /\ UNCHANGED restVars

\* ------------------------------------------------------------------------
\* EmulatorManager, EmulatorDataGenerator and the log generators
\* ------------------------------------------------------------------------
CalculateDistance(a, b) == IF a >= b THEN a - b ELSE b - a

IsEmulatorActive(m) == m = self_mdn /\ is_active

\* the loop of create_gps_log_from_collected_data over the samples: the
\* distance to the previous sample is added unless it exceeds 80 m
RECURSIVE AccumulateDistance(_, _, _)
AccumulateDistance(batch, i, total) ==
    IF i > Len(batch) THEN total
    ELSE LET d == IF i > 1
                  THEN CalculateDistance(batch[i - 1].latitude,
                                         batch[i].latitude)
                  ELSE 0
         IN AccumulateDistance(batch, i + 1,
                               IF d <= MaxStepMeters THEN total + d ELSE total)

\* _convert_route_to_collected_data
ConvertRouteToCollectedData(route) ==
    [i \in 1..Len(route) |-> [latitude |-> route[i]]]

DeliveryUntouched ==
    UNCHANGED <<pending, lock, now, ticks, running, swpc, delivered, discarded,
                attempts, response, encVars, queryVars, sender_call>>

\* LogStorageManager.count_pending_logs: len(queue) of every queue of every
\* handler, summed per kind.  The queues are queue.Queue objects, which have
\* no len(): with a queue in any handler the TypeError is caught and zeros
\* are returned; without a queue the sums are zeros
StorageCountPendingLogs(m) ==
    IF \E k \in Kinds, mdn \in MDNs : pending[<<m, k>>][mdn] # <<>>
    THEN [k \in Kinds |-> 0]    \* the except clause, lines 232-234
    ELSE [k \in Kinds |-> 0]    \* sum([]) of every kind

\* LogStorageManager.process_pending_logs run by the calling thread: the
\* three handlers' process_all_pending_logs, every queue swept under the
\* handler's queue_lock
StorageProcessPendingLogs(m) ==
    /\ \A k \in Kinds : lock[<<m, k>>] = NoThread
    /\ \E outs \in [Kinds -> [MDNs -> [1..MaxEmuRecords -> BOOLEAN]]] :
         LET res == [k \in Kinds |-> [mdn \in MDNs |->
                       ProcessPendingLogs(pending[<<m, k>>][mdn],
                                          MaxStorageHours(k), now,
                                          outs[k][mdn])]]
         IN
         /\ pending' = [h \in Handlers |->
                           IF h[1] = m
                           THEN [mdn \in MDNs |-> res[h[2]][mdn].temp_queue]
                           ELSE pending[h]]
         /\ delivered' = delivered \cup
               UNION {SeqToSet(res[k][mdn].sent) : k \in Kinds, mdn \in MDNs}
         /\ discarded' = discarded \cup
               UNION {res[k][mdn].expired : k \in Kinds, mdn \in MDNs}
         /\ attempts' = [r \in Records |->
               attempts[r] +
               Cardinality({x \in Kinds \X MDNs :
                              r \in SeqToSet(res[x[1]][x[2]].tried)})]

\* data_generator.stop_emulator lines 351-369 and update_position lines
\* 355-359, 371-375: the pending logs are counted and, the count of the
\* kinds looked at being positive, swept before the operation goes on
SweepIfPending(counts, kinds) ==
    /\ IF counts /\ \E k \in kinds : StorageCountPendingLogs("dg")[k] > 0
       THEN StorageProcessPendingLogs("dg")
       ELSE UNCHANGED <<pending, delivered, discarded, attempts>>
    /\ UNCHANGED <<lock, now, ticks, running, swpc, response, encVars,
                   queryVars, sender_call>>

\* the record is handed to LogStorageManager.store_<kind>_log
BeginStore(t, kind, m, info) ==
    /\ nextRec <= MaxEmuRecords
    /\ ctx' = [ctx EXCEPT ![t] = [mgr |-> "dg", kind |-> kind, mdn |-> m,
                                  rec |-> nextRec]]
    /\ nextRec' = nextRec + 1
    /\ st' = [st EXCEPT ![t] = "send"]
    /\ storeRet' = [storeRet EXCEPT ![t] = "none"]
    /\ sendOk' = [sendOk EXCEPT ![t] = FALSE]
    /\ recInfo' = [recInfo EXCEPT ![nextRec] = info]

\* store_<kind>_log has returned to the operation that called it
EndStore(t) ==
    /\ st[t] = "returned"
    /\ st' = [st EXCEPT ![t] = "idle"]
    /\ ctx' = [ctx EXCEPT ![t] = NoCtx]
    /\ sendOk' = [sendOk EXCEPT ![t] = FALSE]
    /\ storeRet' = [storeRet EXCEPT ![t] = "none"]
    /\ UNCHANGED <<nextRec, recInfo>>

NoStore == UNCHANGED <<st, ctx, sendOk, storeRet, nextRec, recInfo>>

\* get_emulator_dict: the copy of the manager's fields that is put into
\* active_emulators under the manager's mdn
GetEmulatorDict(m, lat) == [mdn |-> m, last_latitude |-> lat]

\* BaseLogGenerator.get_emulator(m)["last_latitude"] for an active emulator:
\* the copy kept in active_emulators when it is there under key m
EmulatorLatitude(m) ==
    IF active_emulators.mdn = m THEN active_emulators.last_latitude
    ELSE last_latitude

\* the status generate_power_log draws for a record that has a position:
\* "A" (95%) or "P"; the draw changes the gcd field of the record and nothing
\* else, and the set keeps the frequent outcome
PowerFixStatuses == {"A"}

\* a power-off record that is stamped with the time of its own generation
PowerLog_OwnOnTime(on, m, gcd, lat, onTime, sum) ==
    [kind |-> IF on THEN "power_on" ELSE "power_off", mdn |-> m,
     items |-> <<>>, gcd |-> gcd, lat |-> lat,
     onTime |-> IF on THEN onTime ELSE nextRec, sum |-> sum]

\* generate_power_log: the record; onTime is the time of the power-on for a
\* power-on record and last_power_on_time for a power-off record
PowerLog(on, m, gcd, lat, onTime, sum) ==
    [kind |-> IF on THEN "power_on" ELSE "power_off", mdn |-> m,
     items |-> <<>>, gcd |-> gcd, lat |-> lat, onTime |-> onTime, sum |-> sum]

\* EmulatorDataGenerator.start_emulator: EmulatorManager.start_emulator, then
\* start_vehicle generates the power-on log and stores it
ApiStart(m) ==
    /\ op["api"] = "idle" /\ st["api"] = "idle"
    /\ \E pos \in SeedPositions, fix \in PowerFixStatuses :
         LET stored == IF mdn_accumulated_distances[m] = NoDistance THEN 0
                       ELSE mdn_accumulated_distances[m]
         IN
         /\ self_mdn' = m
         /\ last_latitude' = pos
         /\ is_active' = TRUE
         /\ mdn_accumulated_distances' =
               [mdn_accumulated_distances EXCEPT ![m] = stored]
         /\ accumulated_distance' = stored
         /\ last_positions' = [last_positions EXCEPT ![m] = pos]
         /\ active_emulators' = GetEmulatorDict(m, pos)
         /\ last_power_on_time' = nextRec
         /\ BeginStore("api", "power", m,
                       PowerLog(TRUE, m,
                                IF last_positions'[m] # NoPosition
                                THEN fix ELSE "V",
                                pos, nextRec, stored))
    /\ op' = [op EXCEPT !["api"] = "start_store"]
    /\ apiRet' = "none"
    /\ UNCHANGED <<kakao_route_points, current_route_index, collecting_data,
                   data_timer, data_timers, stop_event, data_callback, loc,
                   count>>
    /\ DeliveryUntouched

ApiStartReturn ==
    /\ op["api"] = "start_store"
    /\ EndStore("api")
    /\ op' = [op EXCEPT !["api"] = "idle"]
    /\ apiRet' = "start:True"
    /\ UNCHANGED <<self_mdn, is_active, last_latitude, accumulated_distance,
                   mdn_accumulated_distances, last_positions,
                   active_emulators, last_power_on_time, kakao_route_points,
                   current_route_index, collecting_data, data_timer,
                   data_timers, stop_event, data_callback, loc, count>>
    /\ DeliveryUntouched

\* EmulatorManager.stop_emulator lines 153-170 and the head of
\* stop_realtime_data_collection (lines 248-258), run by the API thread
StopEmulatorHead ==
    /\ last_positions' = [last_positions EXCEPT ![self_mdn] = last_latitude]
    /\ is_active' = FALSE
    /\ data_timers' = data_timers \ {self_mdn}
    /\ IF data_timer # NoThread
       THEN /\ stop_event' = TRUE
            /\ op' = [op EXCEPT !["api"] = "stop_join"]
            /\ apiRet' = "none"
       ELSE /\ op' = [op EXCEPT !["api"] = "idle"]
            /\ apiRet' = "stop:True"
            /\ UNCHANGED stop_event

\* EmulatorDataGenerator.stop_emulator
ApiStop(m) ==
    /\ op["api"] = "idle" /\ st["api"] = "idle"
    /\ IF IsEmulatorActive(m)
       THEN \* stop_vehicle: the power-off log is generated and stored
            /\ last_positions' =
                  [last_positions EXCEPT ![m] = EmulatorLatitude(m)]
            /\ active_emulators' = GetEmulatorDict(self_mdn, last_latitude)
            /\ \E fix \in PowerFixStatuses :
                 BeginStore("api", "power", m,
                            PowerLog(FALSE, m, fix, EmulatorLatitude(m),
                                     last_power_on_time,
                                     accumulated_distance))
            /\ op' = [op EXCEPT !["api"] = "stop_vehicle_store"]
            /\ apiRet' = "none"
            /\ UNCHANGED <<is_active, data_timers, stop_event>>
       ELSE IF m # self_mdn
            THEN /\ apiRet' = "stop:False"
                 /\ NoStore
                 /\ UNCHANGED <<last_positions, active_emulators, is_active,
                                data_timers, stop_event, op>>
            ELSE /\ StopEmulatorHead
                 /\ active_emulators' =
                       IF data_timer # NoThread THEN active_emulators
                       ELSE GetEmulatorDict(self_mdn, last_latitude)
                 /\ NoStore
    /\ UNCHANGED <<self_mdn, last_latitude, accumulated_distance,
                   mdn_accumulated_distances, last_power_on_time,
                   kakao_route_points, current_route_index, collecting_data,
                   data_timer, data_callback, loc, count>>
    /\ SweepIfPending(apiRet' = "stop:True", Kinds)

\* stop_vehicle line 277 after the power-off log is stored, then
\* EmulatorManager.stop_emulator
ApiStopVehicleReturn ==
    /\ op["api"] = "stop_vehicle_store"
    /\ EndStore("api")
    /\ StopEmulatorHead
    /\ active_emulators' = GetEmulatorDict(self_mdn, last_latitude)
    /\ UNCHANGED <<self_mdn, last_latitude, accumulated_distance,
                   mdn_accumulated_distances, last_power_on_time,
                   kakao_route_points, current_route_index, collecting_data,
                   data_timer, data_callback, loc, count>>
    /\ SweepIfPending(apiRet' = "stop:True", Kinds)

\* stop_realtime_data_collection lines 258-274: join(timeout=2.0) returns
\* when the sampler thread has ended or, the sampler being inside a call
\* that outlasts the timeout, when the 2 s have passed; then the samples
\* left in collecting_data go to the callback (_process_collected_data,
\* which produces nothing for an inactive emulator) and the list is emptied
ApiStopJoin ==
    /\ op["api"] = "stop_join"
    /\ op["sampler"] # "loop"
    /\ data_timer' = NoThread
    /\ IF collecting_data # <<>> /\ data_callback /\ IsEmulatorActive(self_mdn)
       THEN /\ loc' = [loc EXCEPT !["api"] =
                          [total |-> accumulated_distance,
                           batch |-> collecting_data, mdn |-> self_mdn]]
            /\ op' = [op EXCEPT !["api"] = "stop_flush_read"]
            /\ UNCHANGED <<collecting_data, apiRet, active_emulators>>
       ELSE /\ collecting_data' = IF collecting_data # <<>> /\ data_callback
                                  THEN <<>> ELSE collecting_data
            /\ op' = [op EXCEPT !["api"] = "idle"]
            /\ apiRet' = "stop:True"
            /\ active_emulators' = GetEmulatorDict(self_mdn, last_latitude)
            /\ UNCHANGED loc
    /\ NoStore
    /\ UNCHANGED <<self_mdn, is_active, last_latitude, accumulated_distance,
                   mdn_accumulated_distances, last_positions,
                   last_power_on_time, kakao_route_points,
                   current_route_index, data_timers, stop_event,
                   data_callback, count>>
    /\ SweepIfPending(op'["api"] = "idle", Kinds)

\* POST /api/logs/generate (realtime=False) on an active emulator:
\* generate_gps_log_from_kakao_route sets the route on the manager
\* (set_kakao_route_data), converts it to samples and enters
\* create_gps_log_from_collected_data, which reads the odometer (line 108)
ApiGenerate(m) ==
    /\ op["api"] = "idle" /\ st["api"] = "idle"
    /\ IsEmulatorActive(m)
    /\ \E route \in Routes :
         /\ kakao_route_points' = route
         /\ current_route_index' = 0
         /\ last_latitude' = route[1]
         /\ last_positions' = [last_positions EXCEPT ![self_mdn] = route[1]]
         /\ loc' = [loc EXCEPT !["api"] =
                       [total |-> accumulated_distance,
                        batch |-> ConvertRouteToCollectedData(route),
                        mdn |-> m]]
    /\ op' = [op EXCEPT !["api"] = "gen_read"]
    /\ apiRet' = "none"
    /\ NoStore
    /\ UNCHANGED <<self_mdn, is_active, accumulated_distance,
                   mdn_accumulated_distances, active_emulators,
                   last_power_on_time, collecting_data, data_timer,
                   data_timers, stop_event, data_callback, count>>
    /\ DeliveryUntouched

\* start_realtime_data_collection on an active emulator that has no sampler
\* thread (one sampler thread is modelled)
ApiStartRealtime(m) ==
    /\ op["api"] = "idle" /\ st["api"] = "idle"
    /\ IsEmulatorActive(m)
    /\ m \notin data_timers
    /\ data_timer = NoThread
    /\ op["sampler"] \in {"unborn", "exited"}
    /\ collecting_data' = <<>>
    /\ data_callback' = TRUE
    /\ stop_event' = FALSE
    /\ data_timer' = "sampler"
    /\ data_timers' = data_timers \cup {m}
    /\ count' = 0
    /\ op' = [op EXCEPT !["sampler"] = "loop"]
    /\ apiRet' = "realtime:True"
    /\ NoStore
    /\ UNCHANGED <<self_mdn, is_active, last_latitude, accumulated_distance,
                   mdn_accumulated_distances, last_positions,
                   active_emulators, last_power_on_time, kakao_route_points,
                   current_route_index, loc>>
    /\ DeliveryUntouched

ReadOps == {"gen_read", "flush_read", "exhaust_read", "stop_flush_read"}
StoreOps == {"gen_store", "flush_store", "exhaust_store", "stop_flush_store"}

StoreOpOf(o) ==
    CASE o = "gen_read" -> "gen_store"
      [] o = "flush_read" -> "flush_store"
      [] o = "exhaust_read" -> "exhaust_store"
      [] o = "stop_flush_read" -> "stop_flush_store"

\* create_gps_log_from_collected_data lines 110-218, then store_gps_log: the
\* odometer read at line 108 plus the distances of the batch is written back
\* (update_accumulated_distance, which ignores another mdn) and the GPS log
\* goes to the store
CreateGpsLogFinish(t) ==
    /\ op[t] \in ReadOps
    /\ LET total == AccumulateDistance(loc[t].batch, 1, loc[t].total)
           m == loc[t].mdn
       IN
       /\ IF m = self_mdn
          THEN /\ accumulated_distance' = total
               /\ mdn_accumulated_distances' =
                     [mdn_accumulated_distances EXCEPT ![self_mdn] = total]
               /\ active_emulators' = GetEmulatorDict(self_mdn, last_latitude)
          ELSE UNCHANGED <<accumulated_distance, mdn_accumulated_distances,
                           active_emulators>>
       /\ BeginStore(t, "gps", m,
                     [kind |-> "gps", mdn |-> m, items |-> loc[t].batch,
                      gcd |-> "A", lat |-> 0, onTime |-> 0, sum |-> total])
    /\ op' = [op EXCEPT ![t] = StoreOpOf(op[t])]
    /\ UNCHANGED <<self_mdn, is_active, last_latitude, last_positions,
                   last_power_on_time, kakao_route_points,
                   current_route_index, collecting_data, data_timer,
                   data_timers, stop_event, data_callback, loc, count,
                   apiRet>>
    /\ DeliveryUntouched

\* store_gps_log returned: the generate call returns; a flush empties
\* collecting_data (and the sampler resets count)
GpsStoreReturn(t) ==
    /\ op[t] \in StoreOps
    /\ EndStore(t)
    /\ op' = [op EXCEPT ![t] =
                 CASE op[t] = "gen_store" -> "idle"
                   [] op[t] = "flush_store" -> "loop"
                   [] op[t] = "exhaust_store" -> "exhaust_off"
                   [] op[t] = "stop_flush_store" -> "idle"]
    /\ collecting_data' = IF op[t] = "gen_store" THEN collecting_data ELSE <<>>
    /\ count' = IF op[t] = "flush_store" THEN 0 ELSE count
    /\ apiRet' = CASE op[t] = "gen_store" -> "generate:True"
                   [] op[t] = "stop_flush_store" -> "stop:True"
                   [] OTHER -> apiRet
    /\ loc' = [loc EXCEPT ![t] = NoLoc]
    /\ active_emulators' = IF op[t] = "stop_flush_store"
                           THEN GetEmulatorDict(self_mdn, last_latitude)
                           ELSE active_emulators
    /\ UNCHANGED <<self_mdn, is_active, last_latitude, accumulated_distance,
                   mdn_accumulated_distances, last_positions,
                   last_power_on_time, kakao_route_points,
                   current_route_index, data_timer, data_timers, stop_event,
                   data_callback>>
    /\ SweepIfPending(op[t] = "stop_flush_store", Kinds)

\* a loop that goes on whatever stop_event says
WorkerContinues_IgnoresStop == TRUE

\* _data_collection_worker line 502: while not stop_event.is_set()
WorkerContinues == ~stop_event

\* _data_collection_worker: the loop condition finds stop_event set
WorkerExit ==
    /\ op["sampler"] = "loop"
    /\ ~WorkerContinues
    /\ op' = [op EXCEPT !["sampler"] = "exited"]
    /\ NoStore
    /\ UNCHANGED <<self_mdn, is_active, last_latitude, accumulated_distance,
                   mdn_accumulated_distances, last_positions,
                   active_emulators, last_power_on_time, kakao_route_points,
                   current_route_index, collecting_data, data_timer,
                   data_timers, stop_event, data_callback, loc, count, apiRet>>
    /\ DeliveryUntouched

FlushDue_TimeOnly(elapsed, c) == elapsed

\* _data_collection_worker line 577: send_interval_sec has passed since the
\* last flush or count has reached batch_size
FlushDue(elapsed, c) == elapsed \/ c >= BatchSize

\* one iteration of _data_collection_worker on an active emulator:
\* update_position, which either moves to the next route point or to no
\* point at all (no route), or finds the route used up (lines 334 and 399)
\* and starts the shutdown with the flush of collecting_data; otherwise the
\* sample is appended and, the batch being full or send_interval_sec having
\* passed, the callback is entered
WorkerTick ==
    /\ op["sampler"] = "loop"
    /\ WorkerContinues
    /\ is_active
    /\ LET n == Len(kakao_route_points)
           moves == n > 0 /\ current_route_index < n
           newLat == IF moves THEN kakao_route_points[current_route_index + 1]
                     ELSE last_latitude
           newIndex == IF moves THEN current_route_index + 1
                       ELSE current_route_index
           used_up == n > 0 /\ newIndex >= n
           newData == Append(collecting_data, [latitude |-> newLat])
       IN
       /\ last_latitude' = newLat
       /\ current_route_index' = newIndex
       /\ IF used_up
          THEN /\ IF collecting_data # <<>> /\ data_callback
                  THEN /\ op' = [op EXCEPT !["sampler"] = "exhaust_read"]
                       /\ loc' = [loc EXCEPT !["sampler"] =
                                     [total |-> accumulated_distance,
                                      batch |-> collecting_data,
                                      mdn |-> self_mdn]]
                  ELSE /\ op' = [op EXCEPT !["sampler"] = "exhaust_off"]
                       /\ UNCHANGED loc
               /\ UNCHANGED <<collecting_data, count, last_positions,
                               active_emulators>>
          ELSE /\ last_positions' =
                     [last_positions EXCEPT ![self_mdn] = newLat]
               /\ active_emulators' = GetEmulatorDict(self_mdn, newLat)
               /\ collecting_data' = newData
               /\ count' = count + 1
               /\ \E elapsed \in BOOLEAN :
                    IF FlushDue(elapsed, count + 1) /\ data_callback
                    THEN /\ op' = [op EXCEPT !["sampler"] = "flush_read"]
                         /\ loc' = [loc EXCEPT !["sampler"] =
                                       [total |-> accumulated_distance,
                                        batch |-> newData, mdn |-> self_mdn]]
                    ELSE UNCHANGED <<op, loc>>
    /\ NoStore
    /\ UNCHANGED <<self_mdn, is_active, accumulated_distance,
                   mdn_accumulated_distances, last_power_on_time,
                   kakao_route_points, data_timer, data_timers, stop_event,
                   data_callback, apiRet>>
    /\ DeliveryUntouched

\* the end of the shutdown in update_position (lines 378-398): is_active is
\* cleared, stop_event set, stop_emulator() run by the sampler itself (no
\* join on its own thread) and sys.exit(0) ends the thread
SelfStop ==
    /\ is_active' = FALSE
    /\ stop_event' = TRUE
    /\ last_positions' = [last_positions EXCEPT ![self_mdn] = last_latitude]
    /\ active_emulators' = GetEmulatorDict(self_mdn, last_latitude)
    /\ data_timers' = data_timers \ {self_mdn}
    /\ data_timer' = NoThread
    /\ collecting_data' = IF data_timer # NoThread /\ data_callback
                          THEN <<>> ELSE collecting_data
    /\ op' = [op EXCEPT !["sampler"] = "exited"]

\* update_position lines 353-363: the pending logs are counted and swept,
\* then data_generator.stop_vehicle(self.mdn) generates and stores the
\* power-off log of an active emulator
WorkerPowerOff ==
    /\ op["sampler"] = "exhaust_off"
    /\ IF IsEmulatorActive(self_mdn)
       THEN /\ last_positions' =
                  [last_positions EXCEPT ![self_mdn] =
                      EmulatorLatitude(self_mdn)]
            /\ active_emulators' = GetEmulatorDict(self_mdn, last_latitude)
            /\ \E fix \in PowerFixStatuses :
                 BeginStore("sampler", "power", self_mdn,
                            PowerLog(FALSE, self_mdn, fix,
                                     EmulatorLatitude(self_mdn),
                                     last_power_on_time,
                                     accumulated_distance))
            /\ op' = [op EXCEPT !["sampler"] = "exhaust_off_store"]
            /\ UNCHANGED <<is_active, stop_event, data_timers, data_timer,
                           collecting_data>>
       ELSE /\ SelfStop
            /\ NoStore
    /\ UNCHANGED <<self_mdn, last_latitude, accumulated_distance,
                   mdn_accumulated_distances, last_power_on_time,
                   kakao_route_points, current_route_index, data_callback,
                   loc, count, apiRet>>
    /\ SweepIfPending(TRUE, Kinds)

\* the power-off log is stored: stop_vehicle line 277, the power logs are
\* counted and swept (lines 371-375) and the rest of the shutdown
WorkerPowerOffReturn ==
    /\ op["sampler"] = "exhaust_off_store"
    /\ EndStore("sampler")
    /\ SelfStop
    /\ UNCHANGED <<self_mdn, last_latitude, accumulated_distance,
                   mdn_accumulated_distances, last_power_on_time,
                   kakao_route_points, current_route_index, data_callback,
                   loc, count, apiRet>>
    /\ SweepIfPending(TRUE, {"power"})

\* ------------------------------------------------------------------------
\* The GPS encoders: GpsLogHandler.batch_gps_data_points, the generator of
\* services/gps_log_generator.py and the route sampling of
\* services/log_generators/gps_log_generator.py
\* ------------------------------------------------------------------------
GpsStatuses == {"A", "V", "0"}
Headings == {0, 90}
Speeds == {0, 50}
DataPoints ==
    [gcd : GpsStatuses, latitude : {37}, longitude : {127},
     heading : Headings, speed : Speeds]
DataPointBatches ==
    {<<p>> : p \in DataPoints} \cup {<<p, q>> : p \in DataPoints, q \in DataPoints}

\* batch_gps_data_points lines 78-94: one cList item of one data point
CListItem(point) ==
    [gcd |-> point.gcd,
     lat |-> IF point.gcd = "0" THEN "0"
             ELSE ToString(point.latitude * 1000000),
     lon |-> IF point.gcd = "0" THEN "0"
             ELSE ToString(point.longitude * 1000000),
     ang |-> ToString(point.heading),
     spd |-> ToString(point.speed)]

BatchGpsDataPoints(points) == [i \in 1..Len(points) |-> CListItem(points[i])]

\* services/gps_log_generator.py generate_gps_log lines 61-148: one status
\* is drawn for the record; with status "0" every item is all zeros
GeneratedItem(gps_status, lat, ang, spd) ==
    IF gps_status = "0"
    THEN [gcd |-> gps_status, lat |-> "0", lon |-> "0", ang |-> "0",
          spd |-> "0"]
    ELSE [gcd |-> gps_status, lat |-> ToString(lat), lon |-> ToString(127),
          ang |-> ToString(ang), spd |-> ToString(spd)]

\* a call of batch_gps_data_points; the encoder variables hold the last
\* call of an encoder and are cleared by the call of another one
EncodeBatch ==
    /\ \E points \in DataPointBatches :
         /\ data_points' = points
         /\ cList' = BatchGpsDataPoints(points)
    /\ vertex_count' = 0
    /\ gps_log' = [items |-> 0, cCnt |-> "0"]
    /\ route_points' = <<>>
    /\ result' = <<>>
    /\ heading' = NoHeading

\* a call of generate_gps_log of services/gps_log_generator.py
\* (generate_full=False: one item)
EncodeGenerated ==
    /\ \E gps_status \in GpsStatuses, ang \in Headings, spd \in Speeds :
         cList' = <<GeneratedItem(gps_status, 37, ang, spd)>>
    /\ data_points' = <<>>
    /\ vertex_count' = 0
    /\ gps_log' = [items |-> 0, cCnt |-> "0"]
    /\ route_points' = <<>>
    /\ result' = <<>>
    /\ heading' = NoHeading

\* _interpolate_points: the number of points it returns for n points and
\* target_count 60.  The per-segment counts int(pps*(i+1)) - int(pps*i) add
\* up to int(pps * segments); in double arithmetic that product falls just
\* below target_count - n for the lengths in OneShortLengths.
TargetCount == 60
OneShortLengths == {45, 47, 48}
InterpolatePoints(n) ==
    IF n <= 1 THEN n
    ELSE IF TargetCount <= n THEN n
    ELSE LET interpolated == IF n \in OneShortLengths
                             THEN TargetCount - n - 1
                             ELSE TargetCount - n
         IN 1 + interpolated + (n - 2) + 1

\* _extract_route_points with generate_full=True: the number of route points
\* for a route of n vertices
ExtractRoutePoints(n) ==
    IF n > TargetCount THEN n
    ELSE IF n < TargetCount THEN InterpolatePoints(n)
    ELSE n

MaxVertices == 64

\* generate_gps_log(mdn, generate_full=True) on an active emulator for a
\* non-empty route: _convert_route_to_collected_data and
\* create_gps_log_from_collected_data make one item per route point
GenerateGpsLog ==
    /\ \E n \in 1..MaxVertices :
         /\ vertex_count' = n
         /\ gps_log' = [items |-> ExtractRoutePoints(n),
                        cCnt |-> ToString(ExtractRoutePoints(n))]
    /\ data_points' = <<>>
    /\ cList' = <<>>
    /\ route_points' = <<>>
    /\ result' = <<>>
    /\ heading' = NoHeading

\* the route handed to _interpolate_points: n vertices VertexSpacing apart
VertexSpacing == 100
RoutePoints(n) == [i \in 1..n |-> [latitude |-> i * VertexSpacing]]

\* _interpolate_points line 484, int(points_per_segment * k) for n points:
\* the floor of (target_count - n) * k / segments, except that the double
\* product falls just below the integer for the last k of OneShortLengths
InterpolatedBefore(n, k) ==
    LET exact == ((TargetCount - n) * k) \div (n - 1)
    IN IF n \in OneShortLengths /\ k = n - 1 THEN exact - 1 ELSE exact

\* lines 496-504: the j-th interpolated point of the segment that starts at
\* pts[i] and gets interpolation_count points
SegmentPoint(pts, i, j, interpolation_count) ==
    [latitude |-> pts[i].latitude
                  + ((pts[i + 1].latitude - pts[i].latitude) * j)
                    \div (interpolation_count + 1)]

\* lines 472-515: the place of points[i] in result, after the vertices and
\* the interpolated points of the segments before it
VertexIndex(n, i) == i + InterpolatedBefore(n, i - 1)

\* _interpolate_points(points, 60): the list it returns.  The loop of lines
\* 482-515 puts, after the first point, the interpolated points of every
\* segment followed by the segment's end point.
InterpolatePointsList(pts) ==
    LET n == Len(pts)
        at == [v \in 1..n |-> VertexIndex(n, v)]
    IN
    IF n <= 1 THEN pts
    ELSE IF TargetCount <= n THEN pts
    ELSE [k \in 1..at[n] |->
            LET i == CHOOSE v \in 1..n :
                        /\ at[v] <= k
                        /\ (v = n \/ k < at[v + 1])
                j == k - at[i]
            IN IF j = 0 THEN pts[i]
               ELSE SegmentPoint(pts, i, j, at[i + 1] - at[i] - 1)]

\* a call of _interpolate_points with target_count 60; route_points and
\* result hold the last call until another encoder is called
Interpolate ==
    /\ \E n \in 1..MaxVertices :
         /\ route_points' = RoutePoints(n)
         /\ result' = InterpolatePointsList(RoutePoints(n))
    /\ heading' = NoHeading
    /\ data_points' = <<>>
    /\ cList' = <<>>
    /\ vertex_count' = 0
    /\ gps_log' = [items |-> 0, cCnt |-> "0"]

\* The heading of a sample, in degrees.  The angles are multiples of
\* AngleStep, for which the 80/20 blend is a whole number.
AngleStep == 15
Angles == {a * AngleStep : a \in 0..((360 \div AngleStep) - 1)}

\* _data_collection_worker lines 546-553 (and create_gps_log_from_collected_data
\* lines 165-174): the difference of the bearing to the previous heading,
\* replaced by 360 minus itself above 180; below 180 the heading is
\* prev_angle * 0.8 + angle * 0.2, otherwise the bearing
SmoothAngle(prev_angle, current_angle) ==
    LET raw == IF current_angle >= prev_angle THEN current_angle - prev_angle
               ELSE prev_angle - current_angle
        angle_diff == IF raw > 180 THEN 360 - raw ELSE raw
    IN IF angle_diff < 180
       THEN (prev_angle * 8 + current_angle * 2) \div 10
       ELSE current_angle

\* the heading of one iteration: with distance > 0 the bearing smoothed, with
\* no movement prev_angle (line 555)
ComputeHeading ==
    /\ \E moved \in BOOLEAN, prev_angle \in Angles, current_angle \in Angles :
         heading' = [moved |-> moved, prev_angle |-> prev_angle,
                     current_angle |-> current_angle,
                     angle |-> IF moved
                               THEN SmoothAngle(prev_angle, current_angle)
                               ELSE prev_angle]
    /\ data_points' = <<>>
    /\ cList' = <<>>
    /\ vertex_count' = 0
    /\ gps_log' = [items |-> 0, cCnt |-> "0"]
    /\ route_points' = <<>>
    /\ result' = <<>>

EncoderUntouched ==
    UNCHANGED <<pending, lock, now, ticks, nextRec, st, ctx, sendOk, response,
                storeRet, running, swpc, delivered, discarded, attempts,
                self_mdn, is_active, last_latitude, accumulated_distance,
                mdn_accumulated_distances, last_positions, active_emulators,
                last_power_on_time, kakao_route_points, current_route_index,
                collecting_data, data_timer, data_timers, stop_event,
                data_callback, op, loc, count, recInfo, apiRet, queryVars,
                sender_call>>

\* ------------------------------------------------------------------------
\* The status query against the sampler thread, attribute by attribute. The
\* API calls run one at a time on the event loop; the sampler thread runs
\* between any two attribute accesses of a call.

\* a route point has a latitude and a longitude of its own
LongitudeOffset == 5
RoutePoint(v) == [latitude |-> v, longitude |-> v + LongitudeOffset]

\* the four values get_vehicle_gps_data returns, taken of the manager at once
Snapshot(e) ==
    [latitude |-> e.last_latitude, longitude |-> e.last_longitude,
     is_active |-> e.is_active,
     accumulated_distance |-> e.accumulated_distance]

NoQuery ==
    [pc |-> "idle", latitude |-> 0, longitude |-> 0, is_active |-> FALSE,
     accumulated_distance |-> 0]

\* no API call is in progress on the event loop
QueryIdle == query.pc \in {"idle", "done", "empty"}

QueryUntouched ==
    UNCHANGED <<pending, lock, now, ticks, nextRec, st, ctx, sendOk, response,
                storeRet, running, swpc, delivered, discarded, attempts,
                self_mdn, is_active, last_latitude, accumulated_distance,
                mdn_accumulated_distances, last_positions, active_emulators,
                last_power_on_time, kakao_route_points, current_route_index,
                collecting_data, data_timer, data_timers, stop_event,
                data_callback, op, loc, count, recInfo, apiRet, encVars,
                sender_call>>

\* EmulatorManager.start_emulator: a seed position, is_active
QueryStartEmulator ==
    /\ QueryIdle
    /\ ~emulator.is_active /\ worker.pc = "unborn"
    /\ \E pos \in SeedPositions :
         emulator' = [emulator EXCEPT !.last_latitude = RoutePoint(pos).latitude,
                                      !.last_longitude = RoutePoint(pos).longitude,
                                      !.is_active = TRUE]
    /\ completed' = completed \cup {Snapshot(emulator')}
    /\ UNCHANGED <<worker, query>>

\* EmulatorManager.set_kakao_route_data, once per device
QuerySetRoute ==
    /\ QueryIdle
    /\ emulator.is_active /\ emulator.kakao_route_points = <<>>
    /\ \E route \in Routes :
         emulator' = [emulator EXCEPT !.kakao_route_points = route,
                                      !.current_route_index = 0,
                                      !.last_latitude = RoutePoint(route[1]).latitude,
                                      !.last_longitude = RoutePoint(route[1]).longitude]
    /\ completed' = completed \cup {Snapshot(emulator')}
    /\ UNCHANGED <<worker, query>>

\* start_realtime_data_collection: the sampler thread is started;
\* _data_collection_worker line 494: prev_lat = self.last_latitude
QueryStartSampler ==
    /\ QueryIdle
    /\ emulator.is_active /\ worker.pc = "unborn"
    /\ worker' = [worker EXCEPT !.pc = "sleep",
                                !.prev_lat = emulator.last_latitude]
    /\ UNCHANGED <<emulator, query, completed>>

\* update_position line 324: self.last_latitude = current_point["latitude"]
WorkerWriteLatitude ==
    /\ worker.pc = "sleep"
    /\ emulator.is_active
    /\ emulator.current_route_index < Len(emulator.kakao_route_points)
    /\ LET point == RoutePoint(emulator.kakao_route_points[
                                  emulator.current_route_index + 1])
       IN emulator' = [emulator EXCEPT !.last_latitude = point.latitude]
    /\ worker' = [worker EXCEPT !.pc = "latitude"]
    /\ UNCHANGED <<query, completed>>

\* line 325: self.last_longitude = current_point["longitude"]
WorkerWriteLongitude ==
    /\ worker.pc = "latitude"
    /\ LET point == RoutePoint(emulator.kakao_route_points[
                                  emulator.current_route_index + 1])
       IN emulator' = [emulator EXCEPT !.last_longitude = point.longitude]
    /\ worker' = [worker EXCEPT !.pc = "longitude"]
    /\ UNCHANGED <<query, completed>>

\* what the iteration in progress adds to the distance travelled: the
\* distance from the position of the previous iteration (the worker's
\* prev_lat, lines 494 and 571) to the new one, unless it exceeds 80 m
TickMovement ==
    LET d == CalculateDistance(worker.prev_lat, emulator.last_latitude)
    IN IF d <= MaxStepMeters THEN d ELSE 0

\* line 329 and the rest of the iteration: the cursor moves on; with the
\* route used up the buffer is flushed and the device stopped, otherwise the
\* sample is appended and the buffer, when due, flushed: a flush adds the
\* distances of the buffer to the odometer
WorkerFinishTick ==
    /\ worker.pc = "longitude"
    /\ LET index == emulator.current_route_index + 1
           used_up == index >= Len(emulator.kakao_route_points)
           batch == IF used_up THEN worker.batch
                    ELSE Append(worker.batch,
                                [latitude |-> emulator.last_latitude])
           total == AccumulateDistance(batch, 1,
                                       emulator.accumulated_distance)
       IN
       \E elapsed \in BOOLEAN :
          LET flush == used_up \/ FlushDue(elapsed, Len(batch))
          IN
          /\ emulator' = [emulator EXCEPT
                            !.current_route_index = index,
                            !.accumulated_distance =
                                IF flush /\ batch # <<>> THEN total ELSE @,
                            !.is_active = IF used_up THEN FALSE ELSE @]
          /\ worker' = [pc |-> IF used_up THEN "exited" ELSE "sleep",
                        batch |-> IF flush THEN <<>> ELSE batch,
                        prev_lat |-> emulator.last_latitude,
                        travelled |-> worker.travelled + TickMovement]
    /\ completed' = completed \cup {Snapshot(emulator')}
    /\ UNCHANGED query

\* get_vehicle_gps_data line 83: is_emulator_active(mdn), {} when it is not
QueryBegin ==
    /\ QueryIdle
    /\ query' = [NoQuery EXCEPT !.pc = IF emulator.is_active THEN "begun"
                                       ELSE "empty"]
    /\ UNCHANGED <<emulator, worker, completed>>

\* line 88: "latitude": self.emulator_manager.last_latitude
QueryReadLatitude ==
    /\ query.pc = "begun"
    /\ query' = [query EXCEPT !.pc = "latitude",
                              !.latitude = emulator.last_latitude]
    /\ UNCHANGED <<emulator, worker, completed>>

\* line 89: "longitude": self.emulator_manager.last_longitude
QueryReadLongitude ==
    /\ query.pc = "latitude"
    /\ query' = [query EXCEPT !.pc = "longitude",
                              !.longitude = emulator.last_longitude]
    /\ UNCHANGED <<emulator, worker, completed>>

\* line 90: "is_active": self.emulator_manager.is_active
QueryReadActive ==
    /\ query.pc = "longitude"
    /\ query' = [query EXCEPT !.pc = "is_active",
                              !.is_active = emulator.is_active]
    /\ UNCHANGED <<emulator, worker, completed>>

\* line 91: "accumulated_distance": get_accumulated_distance(mdn); the
\* dictionary is returned
QueryReadDistance ==
    /\ query.pc = "is_active"
    /\ query' = [query EXCEPT !.pc = "done",
                              !.accumulated_distance =
                                  emulator.accumulated_distance]
    /\ UNCHANGED <<emulator, worker, completed>>

\* ------------------------------------------------------------------------
Init ==
    /\ pending = [h \in Handlers |-> [mdn \in MDNs |-> <<>>]]
    /\ lock = [h \in Handlers |-> NoThread]
    /\ now = 0
    /\ ticks = 0
    /\ nextRec = 1
    /\ st = [t \in Callers |-> "idle"]
    /\ ctx = [t \in Callers |-> NoCtx]
    /\ sendOk = [t \in Callers |-> FALSE]
    /\ response = [t \in Callers |-> NoResponse]
    /\ storeRet = [t \in Callers |-> "none"]
    /\ running = [m \in Managers |-> FALSE]
    /\ swpc = [m \in Managers |-> "off"]
    /\ delivered = {}
    /\ discarded = {}
    /\ attempts = [r \in Records |-> 0]
    /\ self_mdn = "m1"
    /\ is_active = FALSE
    /\ last_latitude = DefaultPosition
    /\ accumulated_distance = 0
    /\ mdn_accumulated_distances = [mdn \in MDNs |-> NoDistance]
    /\ last_positions = [mdn \in MDNs |->
                            IF mdn = "m1" THEN DefaultPosition ELSE NoPosition]
    /\ active_emulators = [mdn |-> "m1", last_latitude |-> DefaultPosition]
    /\ last_power_on_time = 0
    /\ kakao_route_points = <<>>
    /\ current_route_index = 0
    /\ collecting_data = <<>>
    /\ data_timer = NoThread
    /\ data_timers = {}
    /\ stop_event = FALSE
    /\ data_callback = FALSE
    /\ op = [t \in Callers |-> IF t = "api" THEN "idle" ELSE "unborn"]
    /\ loc = [t \in Callers |-> NoLoc]
    /\ count = 0
    /\ recInfo = [r \in Records |-> NoInfo]
    /\ apiRet = "none"
    /\ data_points = <<>>
    /\ cList = <<>>
    /\ vertex_count = 0
    /\ gps_log = [items |-> 0, cCnt |-> "0"]
    /\ route_points = <<>>
    /\ result = <<>>
    /\ heading = NoHeading
    /\ sender_call = [m \in Managers |-> "none"]
    /\ emulator = [last_latitude |-> RoutePoint(DefaultPosition).latitude,
                   last_longitude |-> RoutePoint(DefaultPosition).longitude,
                   is_active |-> FALSE, accumulated_distance |-> 0,
                   current_route_index |-> 0, kakao_route_points |-> <<>>]
    /\ worker = [pc |-> "unborn", batch |-> <<>>,
                 prev_lat |-> RoutePoint(DefaultPosition).latitude,
                 travelled |-> 0]
    /\ query = NoQuery
    /\ completed = {Snapshot(emulator)}

Next ==
    \/ \E t \in Callers, kind \in StoredKinds, mdn \in MDNs : StoreCall(t, kind, mdn)
    \/ \E t \in Callers : StoreLogSend(t)
    \/ \E t \in Callers : StoreLogEnqueue(t)
    \/ \E t \in Callers : CountPendingLogs(t)
    \/ \E t \in Callers : StoreReturn(t)
    \/ \E m \in SenderManagers : StartBackgroundSender(m)
    \/ \E m \in SenderManagers : StartBackgroundSenderAlive(m)
    \/ \E m \in SenderManagers : StopBackgroundSender(m)
    \/ \E m \in SenderManagers : SenderWake(m)
    \/ \E m \in SenderManagers : ProcessAllPendingLogs(m)
    \/ Tick

Spec == Init /\ [][Next]_vars

\* The emulator: the API thread and the sampler thread produce the records
\* and hand them to the store
EmuNext ==
    \/ \E m \in MDNs : ApiStart(m)
    \/ ApiStartReturn
    \/ \E m \in MDNs : ApiStop(m)
    \/ ApiStopVehicleReturn
    \/ ApiStopJoin
    \/ \E m \in MDNs : ApiGenerate(m)
    \/ \E m \in MDNs : ApiStartRealtime(m)
    \/ \E t \in Callers : CreateGpsLogFinish(t)
    \/ \E t \in Callers : GpsStoreReturn(t)
    \/ WorkerTick
    \/ WorkerExit
    \/ WorkerPowerOff
    \/ WorkerPowerOffReturn
    \/ \E t \in Callers : StoreLogSend(t)
    \/ \E t \in Callers : StoreLogEnqueue(t)
    \/ \E t \in Callers : CountPendingLogs(t)

EmuSpec == Init /\ [][EmuNext]_vars

\* The emulator with the sampler thread scheduled fairly: once started, the
\* thread keeps running whatever it is able to do next
SamplerFairness ==
    WF_vars(\/ CreateGpsLogFinish("sampler")
            \/ GpsStoreReturn("sampler")
            \/ WorkerPowerOff
            \/ WorkerPowerOffReturn
            \/ StoreLogSend("sampler")
            \/ StoreLogEnqueue("sampler")
            \/ CountPendingLogs("sampler"))

FairEmuSpec == Init /\ [][EmuNext]_vars /\ SamplerFairness

\* The delivery operations with the backend's answer to every immediate send
\* observed
SendNext ==
    \/ \E t \in Callers, kind \in StoredKinds, mdn \in MDNs : StoreCall(t, kind, mdn)
    \/ \E t \in Callers : StoreLogSendObserved(t)
    \/ \E t \in Callers : StoreLogEnqueue(t)
    \/ \E t \in Callers : CountPendingLogs(t)
    \/ \E t \in Callers : StoreReturn(t)
    \/ \E m \in SenderManagers : StartBackgroundSender(m)
    \/ \E m \in SenderManagers : StopBackgroundSender(m)
    \/ \E m \in SenderManagers : SenderWake(m)
    \/ \E m \in SenderManagers : ProcessAllPendingLogs(m)
    \/ Tick

SendSpec == Init /\ [][SendNext]_vars

\* The encoders applied to every input of the bounded sets
EncoderNext ==
    \/ EncodeBatch /\ EncoderUntouched
    \/ EncodeGenerated /\ EncoderUntouched
    \/ GenerateGpsLog /\ EncoderUntouched
    \/ Interpolate /\ EncoderUntouched
    \/ ComputeHeading /\ EncoderUntouched

EncoderSpec == Init /\ [][EncoderNext]_vars

\* One device, its sampler thread and status queries.
QueryNext ==
    \/ QueryStartEmulator /\ QueryUntouched
    \/ QuerySetRoute /\ QueryUntouched
    \/ QueryStartSampler /\ QueryUntouched
    \/ WorkerWriteLatitude /\ QueryUntouched
    \/ WorkerWriteLongitude /\ QueryUntouched
    \/ WorkerFinishTick /\ QueryUntouched
    \/ QueryBegin /\ QueryUntouched
    \/ QueryReadLatitude /\ QueryUntouched
    \/ QueryReadLongitude /\ QueryUntouched
    \/ QueryReadActive /\ QueryUntouched
    \/ QueryReadDistance /\ QueryUntouched

QuerySpec == Init /\ [][QueryNext]_vars

\* The same program with its threads scheduled fairly: a caller inside store
\* keeps running, the application starts its background sender and the
\* sender, never asked to stop, keeps looping.
FairNext ==
    \/ \E t \in Callers, kind \in StoredKinds, mdn \in MDNs : StoreCall(t, kind, mdn)
    \/ \E t \in Callers : StoreLogSend(t)
    \/ \E t \in Callers : StoreLogEnqueue(t)
    \/ \E t \in Callers : CountPendingLogs(t)
    \/ \E t \in Callers : StoreReturn(t)
    \/ \E m \in SenderManagers : StartBackgroundSender(m)
    \/ \E m \in SenderManagers : SenderWake(m)
    \/ \E m \in SenderManagers : ProcessAllPendingLogs(m)
    \/ Tick

Fairness ==
    /\ \A t \in Callers :
          WF_vars(StoreLogSend(t) \/ StoreLogEnqueue(t) \/ CountPendingLogs(t)
                  \/ StoreReturn(t))
    /\ \A m \in SenderManagers :
          WF_vars(StartBackgroundSender(m) \/ SenderWake(m)
                  \/ ProcessAllPendingLogs(m))

FairSpec == Init /\ [][FairNext]_vars /\ Fairness

\* ------------------------------------------------------------------------
\* Properties of the delivery subsystem
\* ------------------------------------------------------------------------
QueueOf(t) == pending[HandlerOf(t)][ctx[t].mdn]

EntriesOf(r) ==
    {<<h, mdn, i>> \in Handlers \X MDNs \X (1..MaxRecords) :
        i <= Len(pending[h][mdn]) /\ pending[h][mdn][i].data = r}

IsPending(r) == EntriesOf(r) # {}

IsExpired(r) ==
    \E x \in EntriesOf(r) :
       now - pending[x[1]][x[2]][x[3]].timestamp >= MaxStorageHours(x[1][2])

\* C1: a store_log call whose immediate send reports success returns True
\* in that step and leaves every pending queue and every lock as it was.
C1_SuccessReturnsWithoutQueueing ==
    [][\A t \in Callers :
         (st[t] = "send" /\ st'[t] # "send" /\ sendOk'[t])
            => /\ storeRet'[t] = "True"
               /\ pending' = pending
               /\ lock' = lock]_vars

\* a store_log call returned True after a successful send while the queue
\* of its (handler, mdn) held an entry, and the queue still holds just that
C1_Witness ==
    \E t \in Callers :
       /\ st[t] = "wrapper" /\ sendOk[t] /\ storeRet[t] = "True"
       /\ Len(QueueOf(t)) = 1
       /\ QueueOf(t)[1].data # ctx[t].rec

\* C2: a store_log call whose immediate send failed appends its entry
\* {record, now, 0} at the tail of the queue and then returns True.
C2_FailedStoreQueuesAndReturns ==
    \A t \in Callers :
       (st[t] = "count_in_lock") ~> (storeRet[t] = "True")

\* C3: an entry whose age reached the retention of its handler is removed
\* from its queue by the next sweep.
C3_ExpiredEntryIsDiscarded ==
    \A r \in Records : (IsPending(r) /\ IsExpired(r)) ~> ~IsPending(r)

\* C4: an entry younger than the retention gets a send attempt in the sweep
\* (or, grown too old meanwhile, is discarded).
C4_YoungEntryIsAttempted ==
    \A r \in Records :
       (IsPending(r) /\ ~IsExpired(r)) ~> (attempts[r] > 0 \/ r \in discarded)

\* C5: every entry store_log enqueued is eventually delivered or discarded
\* when the background sender is scheduled fairly.
C5_EntryEventuallyLeaves ==
    \A r \in Records : IsPending(r) ~> (r \in delivered \/ r \in discarded)

\* ------------------------------------------------------------------------
\* Properties of the emulator
\* ------------------------------------------------------------------------
GpsRecordOf(batch) ==
    \E r \in Records : recInfo[r].kind = "gps" /\ recInfo[r].items = batch

\* C7: when stop() completes on a device whose buffer held a partial batch
\* (the sampler thread has ended), a GPS record made of exactly these samples
\* has been handed to the store and the buffer is empty.
C7_StopFlushesPartialBatch ==
    [][(/\ op["api"] \in {"stop_join", "stop_flush_store"}
        /\ op["sampler"] = "exited"
        /\ collecting_data # <<>>
        /\ apiRet' = "stop:True")
          => (GpsRecordOf(collecting_data) /\ collecting_data' = <<>>)]_vars

\* C8: the tick that consumes the last waypoint, with fewer than BatchSize
\* samples gathered since the previous flush, flushes one entry per waypoint
\* consumed since that flush, the last waypoint included.
C8_ExhaustionFlushesEveryWaypoint ==
    [][(/\ op["sampler"] = "loop"
        /\ kakao_route_points' = kakao_route_points
        /\ current_route_index < Len(kakao_route_points)
        /\ current_route_index' = Len(kakao_route_points)
        /\ Len(collecting_data) + 1 < BatchSize)
          => (/\ op'["sampler"] = "exhaust_read"
              /\ loc'["sampler"].batch =
                    Append(collecting_data,
                           [latitude |->
                              kakao_route_points[Len(kakao_route_points)]]))]_vars

\* C9: the odometer of a device never decreases while the device is active
\* and does not change while it is inactive.
C9_OdometerMonotonic ==
    [][\A m \in MDNs :
         /\ (IsEmulatorActive(m) /\ IsEmulatorActive(m)')
               => mdn_accumulated_distances'[m] >= mdn_accumulated_distances[m]
         /\ (~IsEmulatorActive(m) /\ ~IsEmulatorActive(m)')
               => mdn_accumulated_distances'[m] = mdn_accumulated_distances[m]]_vars

\* C10: start() on a device that is active returns failure, changes nothing
\* of the vehicle state and produces no power-on record.
C10_DoubleStartRejected ==
    [][\A m \in MDNs :
         (/\ op["api"] = "idle"
          /\ IsEmulatorActive(m)
          /\ self_mdn' = m
          /\ (op'["api"] = "start_store" \/ apiRet' = "start:False"))
            => (/\ apiRet' = "start:False"
                /\ recInfo' = recInfo
                /\ UNCHANGED <<is_active, last_latitude, accumulated_distance,
                               last_positions, last_power_on_time>>)]_vars

\* C11: stop() on a device that is not active returns failure, produces no
\* power-off record and leaves the vehicle state and every pending queue
\* unchanged.
C11_StopWhenInactiveRejected ==
    [][\A m \in MDNs :
         (~IsEmulatorActive(m) /\ ApiStop(m))
            => (/\ apiRet' = "stop:False"
                /\ recInfo' = recInfo
                /\ pending' = pending
                /\ UNCHANGED <<is_active, last_latitude, accumulated_distance,
                               last_positions, last_power_on_time>>)]_vars

\* C12: the sampler flushes in the tick in which the sample count reaches
\* batch_size (or the send interval has passed) and the buffer is emptied
\* after the hand-over, so collecting_data never holds more than batch_size
\* samples and no batch the sampler hands over has more than batch_size.
C12_BatchWithinBatchSize ==
    /\ [](/\ Len(collecting_data) <= BatchSize
          /\ \A t \in Callers :
               op[t] \in {"flush_read", "flush_store", "exhaust_read",
                          "exhaust_store", "stop_flush_read",
                          "stop_flush_store"}
                  => Len(loc[t].batch) <= BatchSize)
    /\ [][/\ (op["sampler"] = "loop" /\ count' = BatchSize /\ count' # count)
             => (op'["sampler"] = "flush_read"
                 /\ loc'["sampler"].batch = collecting_data')
          /\ (op["sampler"] = "flush_store" /\ op'["sampler"] = "loop")
             => (collecting_data' = <<>> /\ count' = 0)]_vars

C12_Witness ==
    /\ op["sampler"] = "flush_read"
    /\ count = BatchSize
    /\ Len(loc["sampler"].batch) = BatchSize
    /\ Len(collecting_data) = BatchSize

\* C13: a start after an explicit stop or after route exhaustion makes the
\* device active again and begins a new trip: a tick of the sampler of an
\* active device whose route was used up by the previous trip advances the
\* vehicle and is not treated as the exhaustion of that route.
C13_RestartBeginsNewTrip ==
    [][/\ \A m \in MDNs : ApiStart(m) => IsEmulatorActive(m)'
       /\ (/\ WorkerTick
           /\ kakao_route_points # <<>>
           /\ current_route_index >= Len(kakao_route_points))
            => op'["sampler"] \notin {"exhaust_read", "exhaust_off"}]_vars

\* C14: start() sets the odometer to 0 only for a device that never ran; for
\* a device that ran before, the odometer after start() is the value the
\* device had when it stopped: start() resumes the persisted value, and the
\* persisted value of a device does not change while the device is stopped.
C14_StartResumesOdometer ==
    [][\A m \in MDNs :
         /\ ApiStart(m)
              => /\ accumulated_distance' =
                       (IF mdn_accumulated_distances[m] = NoDistance THEN 0
                        ELSE mdn_accumulated_distances[m])
                 /\ mdn_accumulated_distances'[m] = accumulated_distance'
         /\ (/\ mdn_accumulated_distances[m] # NoDistance
             /\ ~IsEmulatorActive(m)
             /\ ~IsEmulatorActive(m)')
              => mdn_accumulated_distances'[m] = mdn_accumulated_distances[m]]_vars

\* C15: send_log_to_backend reports success exactly when the answer is an
\* HTTP 200 or 201 whose JSON body carries the success code; every other
\* answer and every exception comes back as a failure result, so the store
\* goes on (to its return on success, to the queue on failure).
C15_SendSucceedsIffAcknowledged ==
    [][\A t \in Callers :
         (st[t] = "send" /\ st'[t] # "send")
            => /\ sendOk'[t] <=> (/\ response'[t].type = "http"
                                  /\ response'[t].status \in {200, 201}
                                  /\ response'[t].body \in {"code000", "rstCd000"})
               /\ st'[t] = IF sendOk'[t] THEN "wrapper" ELSE "enqueue"]_vars

C15_Witness ==
    \E t \in Callers :
       /\ st[t] = "enqueue"
       /\ ~sendOk[t]
       /\ response[t].type = "Timeout"

\* C16: in every GPS record an encoder produces, an entry whose status code
\* is "0" has lat, lon, ang and spd all equal to "0".
C16_NoFixEntriesAreZeroed ==
    \A i \in 1..Len(cList) :
       cList[i].gcd = "0"
          => (/\ cList[i].lat = "0"
              /\ cList[i].lon = "0"
              /\ cList[i].ang = "0"
              /\ cList[i].spd = "0")

\* C20: generate_gps_log(mdn, generate_full=True) on an active emulator
\* returns, for every non-empty route, a record of exactly 60 entries whose
\* cCnt is "60".
C20_FullGenerationHasSixtyEntries ==
    vertex_count >= 1 => (gps_log.items = 60 /\ gps_log.cCnt = "60")

\* power records generated before record r for the device of record r
EarlierPowerOn(r) ==
    {q \in 1..(r - 1) : recInfo[q].kind = "power_on"
                        /\ recInfo[q].mdn = recInfo[r].mdn}

MaxOf(S) == CHOOSE x \in S : \A y \in S : y <= x

C18_PowerOnCarriesLastStopPosition ==
    [][\A m \in MDNs :
         ApiStart(m)
            => IF mdn_accumulated_distances[m] = NoDistance
               THEN recInfo'[nextRec].gcd = "V"
               ELSE recInfo'[nextRec].lat = last_positions[m]]_vars

\* C19: a power-off record carries the position the vehicle state holds at
\* the moment the record is generated, on an explicit stop and on route
\* exhaustion alike.
C19_PowerOffCarriesLivePosition ==
    [][\A r \in Records :
         (recInfo[r].kind = "none" /\ recInfo'[r].kind = "power_off")
            => recInfo'[r].lat = last_latitude]_vars

IsVertex(p) == p.latitude % VertexSpacing = 0

\* C21: _interpolate_points(points, 60) on fewer than 60 vertices returns
\* exactly 60 points that begin with the first vertex, end with the last,
\* hold every vertex in the original order and have the added points between
\* consecutive vertices; on 60 or more vertices it returns its input.
C21_ResampleReachesTarget ==
    route_points # <<>> =>
       IF Len(route_points) < TargetCount
       THEN /\ Len(result) = TargetCount
            /\ result[1] = route_points[1]
            /\ result[Len(result)] = route_points[Len(route_points)]
            /\ SelectSeq(result, IsVertex) = route_points
            /\ \A k \in 1..(Len(result) - 1) :
                  result[k].latitude < result[k + 1].latitude
       ELSE result = route_points

\* C23: every (mdn, kind) queue has its own lock: a caller of store that
\* waits for a queue lock waits for a thread that works on the same queue,
\* never for one that took the lock for the queue of another device.
C23_QueuesHaveOwnLocks ==
    \A t \in Callers :
       (/\ st[t] \in {"enqueue", "wrapper"}
        /\ lock[HandlerOf(t)] \notin {NoThread, t})
          => ctx[lock[HandlerOf(t)]].mdn = ctx[t].mdn

\* record r is in the immediate send of a store call
InImmediateSend(r) == \E t \in Callers : st[t] = "send" /\ ctx[t].rec = r

\* the immediate send of record r failed and its store call has not put it
\* into the queue yet
AwaitsEnqueue(r) == \E t \in Callers : st[t] = "enqueue" /\ ctx[t].rec = r

\* C24: a record handed to store is never lost and never handled by two
\* loops at once: until it is delivered or discarded it is in its immediate
\* send or in exactly one queue entry, never both, and a record whose
\* immediate send failed gets into its queue.
C24_RecordInFlightOrQueued ==
    /\ [](\A r \in 1..(nextRec - 1) :
            /\ (r \in delivered \/ r \in discarded \/ InImmediateSend(r)
                 \/ AwaitsEnqueue(r) \/ IsPending(r))
            /\ ~(InImmediateSend(r) /\ IsPending(r))
            /\ Cardinality(EntriesOf(r)) <= 1)
    /\ \A r \in Records : AwaitsEnqueue(r) ~> IsPending(r)

\* records that wait in a queue of the data generator's LogStorageManager
PendingIn(m) ==
    {r \in Records : \E x \in EntriesOf(r) : x[1][1] = m}

\* a call of EmulatorDataGenerator.stop_emulator returns True in this step
StopCompletes ==
    /\ \/ \E m \in MDNs : ApiStop(m)
       \/ ApiStopVehicleReturn
       \/ ApiStopJoin
       \/ GpsStoreReturn("api")
    /\ apiRet' = "stop:True"

\* C30: when stop_emulator completes while at least one entry is pending, a
\* final sweep has been attempted: an entry that was pending got a send
\* attempt or was discarded for its age.
C30_StopAttemptsFinalSweep ==
    [][(StopCompletes /\ PendingIn("dg") # {})
          => \E r \in PendingIn("dg") :
                attempts'[r] > attempts[r] \/ r \in discarded']_vars

\* C25: delivery does not block the simulation: the sampler thread is never
\* inside a send to the backend, where its next tick has to wait for the
\* send to return.
C25_SamplerNeverWaitsForSend ==
    ~(op["sampler"] \in StoreOps /\ st["sampler"] = "send")

\* the shutdown of update_position has begun and the records it produces
\* (the flush of the buffer, the power-off log) are within MaxEmuRecords
SelfStopBegun ==
    \/ op["sampler"] = "exhaust_read" /\ nextRec + 1 <= MaxEmuRecords
    \/ op["sampler"] = "exhaust_off" /\ nextRec <= MaxEmuRecords

\* C26: a stop triggered by the sampler's own tick (route used up) does not
\* join the sampler thread and runs to completion: the step that runs
\* stop_emulator() on the sampler thread leaves the device inactive with the
\* thread ended and no data_timer, and a shutdown that has begun gets there.
C26_SelfStopCompletes ==
    /\ [][(op["sampler"] \in {"exhaust_off", "exhaust_off_store"}
           /\ op'["sampler"] \notin {"exhaust_off", "exhaust_off_store"})
             => (/\ op'["sampler"] = "exited"
                 /\ ~is_active'
                 /\ stop_event'
                 /\ data_timer' = NoThread)]_vars
    /\ SelfStopBegun ~> (op["sampler"] = "exited" /\ ~is_active)

\* C27: once the sampler loop has been signalled to stop (stop_event set) no
\* iteration begins: no step appends a sample to collecting_data or moves
\* the vehicle to the next route point while the signal stands.
C27_NoTickAfterStopSignal ==
    [][stop_event
         => (/\ ~WorkerTick
             /\ Len(collecting_data') <= Len(collecting_data)
             /\ current_route_index' # current_route_index + 1)]_vars

\* the device has been started again while the signalled loop, back from a
\* flush, has not tested its stop_event yet
C27_Witness ==
    /\ stop_event
    /\ is_active
    /\ op["sampler"] = "loop"

\* a step of the ad-hoc full-batch generation (generate_gps_log_from_kakao_route
\* with its set_kakao_route_data, then create_gps_log_from_collected_data)
\* on the API thread
GenerationStep ==
    \/ \E m \in MDNs : ApiGenerate(m)
    \/ op["api"] = "gen_read" /\ CreateGpsLogFinish("api")

\* C28: the sampler loop is the only writer of the vehicle state: the ad-hoc
\* full-batch generation leaves the position, the route cursor and the
\* odometer of a running device unchanged.
C28_GenerationLeavesVehicleState ==
    [][(is_active /\ GenerationStep)
         => UNCHANGED <<last_latitude, current_route_index,
                        accumulated_distance>>]_vars

\* C29: a status query never returns a partially updated vehicle state: the
\* latitude, longitude, odometer and active flag of one answer are those of
\* the vehicle at the end of one call or one iteration of the sampler loop.
C29_QuerySeesCompletedTick ==
    query.pc = "done"
      => [latitude |-> query.latitude, longitude |-> query.longitude,
          is_active |-> query.is_active,
          accumulated_distance |-> query.accumulated_distance] \in completed

\* the entries in the queues of kind k of manager m, over all devices
QueuedOfKind(m, k) ==
    {<<mdn, i>> \in MDNs \X Records : i <= Len(pending[<<m, k>>][mdn])}

\* C31: LogStorageManager.count_pending_logs returns for each kind the number
\* of entries pending over all devices' queues of that kind, a non-zero count
\* whenever a queue of that kind is not empty.
C31_CountPendingLogsCountsQueues ==
    \A m \in Managers, k \in Kinds :
       StorageCountPendingLogs(m)[k] = Cardinality(QueuedOfKind(m, k))

\* the route has no waypoint after the cursor; an empty route has none
NoWaypointLeft == current_route_index >= Len(kakao_route_points)

\* C32: the sampler does not keep ticking on a route with no remaining
\* waypoint, an empty route included: the iteration that finds no further
\* waypoint begins the end of the trip (the flush of the partial batch, then
\* the power-off that leaves the device inactive and the loop ended).
C32_TickWithoutWaypointEndsTrip ==
    [][(WorkerTick /\ NoWaypointLeft)
          => op'["sampler"] \in {"exhaust_read", "exhaust_off"}]_vars

\* C33: every tick of an active device that moves at most 80 m adds that
\* movement to the odometer and a longer one adds nothing, the tick across
\* the boundary of two flushed batches included: with every sample flushed
\* the odometer is the sum of the movements of at most 80 m of all ticks.
C33_OdometerCountsEveryTick ==
    (worker.pc \in {"sleep", "exited"} /\ worker.batch = <<>>)
       => emulator.accumulated_distance = worker.travelled

\* the raw difference |bearing - previous heading| of the last heading
RawAngleDifference ==
    IF heading.current_angle >= heading.prev_angle
    THEN heading.current_angle - heading.prev_angle
    ELSE heading.prev_angle - heading.current_angle

\* C34: when a tick moves the vehicle the new heading is the 80/20 blend of
\* the previous heading and the bearing if their raw difference does not
\* exceed 180 degrees, and the bearing itself if it does; the heading is
\* within [0, 360).
C34_HeadingBlendOrSnap ==
    heading.moved =>
       /\ heading.angle =
             IF RawAngleDifference <= 180
             THEN (heading.prev_angle * 8 + heading.current_angle * 2) \div 10
             ELSE heading.current_angle
       /\ heading.angle >= 0 /\ heading.angle < 360

\* thread t is about to acquire the queue_lock of the handler it stores in
\* (count_pending_logs line 75, store_log line 103)
AcquiresQueueLock(t) == st[t] \in {"enqueue", "count_in_lock", "wrapper"}

\* C35: no queue operation acquires the handler's queue_lock while its own
\* thread holds it, and with no store call in progress no caller holds a
\* queue_lock.
C35_NoSelfAcquireOfQueueLock ==
    /\ \A t \in Callers : AcquiresQueueLock(t) => lock[HandlerOf(t)] # t
    /\ (\A t \in Callers : st[t] \in {"idle", "returned"})
          => \A h \in Handlers : lock[h] \notin Callers

\* the enqueue-times of the entries that hold record r
TimestampsOf(r) ==
    {pending[x[1]][x[2]][x[3]].timestamp : x \in EntriesOf(r)}

\* the background sender sweeps the handlers of kind k in this step
SweepOfKind(k) ==
    \E m \in SenderManagers : swpc[m] = k /\ ProcessAllPendingLogs(m)

\* C36: an entry that stays queued keeps its record and its enqueue-time and
\* its retry_count is the number of failed attempts sweeps made on it; and
\* no entry is still queued after a sweep of its kind that runs when its age
\* has reached the retention.
C36_RetryKeepsEntryAndExpiryHolds ==
    /\ [](\A r \in Records : \A x \in EntriesOf(r) :
             pending[x[1]][x[2]][x[3]].retry_count = attempts[r])
    /\ [][\A r \in Records :
             (IsPending(r) /\ IsPending(r)') => TimestampsOf(r)' = TimestampsOf(r)]_vars
    /\ [][\A r \in Records : \A k \in Kinds :
             (/\ SweepOfKind(k)
              /\ IsExpired(r)
              /\ \E x \in EntriesOf(r) : x[1][2] = k)
                => ~IsPending(r)']_vars

\* the sampler thread is inside the callback it called with collecting_data
\* (lines 583 and 343) and has not emptied the list yet
SamplerFlushInProgress ==
    /\ op["sampler"] \in {"flush_read", "flush_store",
                          "exhaust_read", "exhaust_store"}
    /\ loc["sampler"].batch = collecting_data

\* stop_realtime_data_collection, back from its join, calls the callback
\* with collecting_data in this step (lines 266-272)
StopHandsOver == ApiStopJoin /\ collecting_data # <<>> /\ data_callback

\* C37: a sample is handed to the batch callback in at most one flush: the
\* final flush of a stop whose wait for the sampler timed out does not hand
\* over the samples of a flush the sampler has in progress, and a sampler
\* that returns from its flush empties no other list than the one it handed
\* over.
C37_SamplesHandedOverOnce ==
    [][/\ StopHandsOver => ~SamplerFlushInProgress
       /\ (GpsStoreReturn("sampler") /\ collecting_data # <<>>)
             => collecting_data = loc["sampler"].batch]_vars

\* the records generated so far, in the order of their generation
Generated == 1..(nextRec - 1)

\* C38: a trip has at most one power-off record: between two power-off
\* records of a device a power-on record of that device was generated.
C38_OnePowerOffPerTrip ==
    \A r1, r2 \in Generated :
       (/\ r1 < r2
        /\ recInfo[r1].kind = "power_off" /\ recInfo[r2].kind = "power_off"
        /\ recInfo[r1].mdn = recInfo[r2].mdn)
          => \E r \in Generated :
                /\ r1 < r /\ r < r2
                /\ recInfo[r].kind = "power_on"
                /\ recInfo[r].mdn = recInfo[r1].mdn

\* C39: when the last of the start_background_sender and
\* stop_background_sender calls on a manager is a start that has returned,
\* True or False, a sender thread of that manager is alive and goes on
\* sweeping: it has not ended and its running flag is set.
C39_SenderRunsAfterStart ==
    \A m \in SenderManagers :
       sender_call[m] \in {"start:True", "start:False"}
          => SenderAlive(m) /\ running[m]

====
